---------------------------- MODULE Spec2Model ----------------------------
(***************************************************************************)
(* Model of cmd/fillstruct/typestring.go: typeString, writeType,           *)
(* writeTuple and writeSignature, executed step by step on an explicit     *)
(* call stack over a go/types type graph held in a heap of nodes.          *)
(***************************************************************************)
EXTENDS Naturals, Sequences, FiniteSets, TLC

(***************************************************************************)
(* Bounds of the model.                                                    *)
(***************************************************************************)
\* longest chain of freely chosen composite nodes in a generated graph
MaxChain == 2
\* number of Pointer nodes beyond the initial capacity in the deep graphs
MaxDeep == 1
\* deepest call stack the model follows
MaxStack == 40

(***************************************************************************)
(* Program constants.                                                      *)
(***************************************************************************)
\* make([]types.Type, 0, 8)
InitCap == 8

(***************************************************************************)
(* The go/types model: nodes are identified by their address (a number);   *)
(* 0 is the nil interface value.                                           *)
(***************************************************************************)
NilT == 0

\* *types.Package values: NoPkg is the nil package; PkgA and PkgA2 are two
\* distinct packages with the same Name().
NoPkg == "nil"
Packages == {"pkgA", "pkgB", "pkgA2"}
PkgName(p) == CASE p = "pkgA" -> "a" [] p = "pkgB" -> "b" [] p = "pkgA2" -> "a"

Basic(k, n) == [kind |-> "Basic", bkind |-> k, name |-> n]
Array(l, e) == [kind |-> "Array", len |-> l, elem |-> e]
Slice(e) == [kind |-> "Slice", elem |-> e]
Struct(fs) == [kind |-> "Struct", fields |-> fs]
Pointer(e) == [kind |-> "Pointer", elem |-> e]
Tuple(vs) == [kind |-> "Tuple", vars |-> vs]
Signature(ps, rs, v) == [kind |-> "Signature", params |-> ps, results |-> rs, variadic |-> v]
Interface(ms, es) == [kind |-> "Interface", methods |-> ms, embeddeds |-> es]
Map(k, e) == [kind |-> "Map", key |-> k, elem |-> e]
Chan(d, e) == [kind |-> "Chan", dir |-> d, elem |-> e]
Named(n, p, u) == [kind |-> "Named", name |-> n, pkg |-> p, underlying |-> u]
Opaque(s) == [kind |-> "Opaque", str |-> s]
NilType == [kind |-> "nil"]

Field(n, anon, t, tag) == [name |-> n, anonymous |-> anon, typ |-> t, tag |-> tag]
Var(n, t) == [name |-> n, typ |-> t]
Func(n, sig) == [name |-> n, sig |-> sig]

\* fmt's %T of a node: the dynamic type of the types.Type value
TypeTag(k) ==
    CASE k = "Basic" -> "*types.Basic"
      [] k = "Array" -> "*types.Array"
      [] k = "Slice" -> "*types.Slice"
      [] k = "Struct" -> "*types.Struct"
      [] k = "Pointer" -> "*types.Pointer"
      [] k = "Tuple" -> "*types.Tuple"
      [] k = "Signature" -> "*types.Signature"
      [] k = "Interface" -> "*types.Interface"
      [] k = "Map" -> "*types.Map"
      [] k = "Chan" -> "*types.Chan"
      [] k = "Named" -> "*types.Named"
      [] k = "Opaque" -> "main.extType"
      [] k = "nil" -> "<nil>"

\* mutant: the marker without the type of the node
CycleMarkBare(k) == "○"

\* fmt.Fprintf(buf, "○%T", typ)
CycleMark(k) == "○" \o TypeTag(k)
Markers == {CycleMark(k) : k \in {"Basic", "Array", "Slice", "Struct", "Pointer", "Tuple",
                                  "Signature", "Interface", "Map", "Chan", "Named",
                                  "Opaque", "nil"}}

(***************************************************************************)
(* The graphs the model renders.  Leaves live at fixed addresses; a graph  *)
(* is a chain of composite nodes, link i at address 10*i with its helper    *)
(* Signature and Tuple nodes at 10*i+1 .. 10*i+3, whose last link points   *)
(* at a leaf or back at any node of the chain.                             *)
(***************************************************************************)
TInvalid == 1
TString == 2
TInt == 3
TUnsafe == 4
TNamedA == 5
TNamedB == 6
TNamedA2 == 7
TError == 8
TExt == 9

LeafHeap ==
    (NilT :> NilType) @@
    (TInvalid :> Basic("Invalid", "invalid type")) @@
    (TString :> Basic("String", "string")) @@
    (TInt :> Basic("Int", "int")) @@
    (TUnsafe :> Basic("UnsafePointer", "Pointer")) @@
    (TNamedA :> Named("T", "pkgA", TString)) @@
    (TNamedB :> Named("U", "pkgB", TInt)) @@
    (TNamedA2 :> Named("V", "pkgA2", TString)) @@
    (TError :> Named("error", NoPkg, TInt)) @@
    (TExt :> Opaque("ext"))

CoreVariants ==
    {"Slice", "Pointer", "Struct2", "MapBoth", "Tuple", "SigParam", "SigVar", "SigRes1",
     "SigRes2", "IfaceMethodParam", "IfaceEmbed", "Named"}

Variants ==
    {"Array", "Slice", "Pointer", "Struct1", "Struct2", "MapElem", "MapBoth",
     "Chan", "ChanSend", "ChanRecv", "Tuple", "SigParam", "SigVar", "SigRes1",
     "SigResNamed", "SigRes2", "IfaceMethodParam", "IfaceMethodRes", "IfaceBoth",
     "IfaceEmbed", "Named"}

Link(v, m, nx) ==
    CASE v = "Array" -> (m :> Array(3, nx))
      [] v = "Slice" -> (m :> Slice(nx))
      [] v = "Pointer" -> (m :> Pointer(nx))
      [] v = "Struct1" -> (m :> Struct(<<Field("X", FALSE, nx, "json")>>))
      [] v = "Struct2" -> (m :> Struct(<<Field("A", TRUE, nx, ""), Field("B", FALSE, nx, "")>>))
      [] v = "MapElem" -> (m :> Map(TString, nx))
      [] v = "MapBoth" -> (m :> Map(nx, nx))
      [] v = "Chan" -> (m :> Chan("SendRecv", nx))
      [] v = "ChanSend" -> (m :> Chan("SendOnly", nx))
      [] v = "ChanRecv" -> (m :> Chan("RecvOnly", nx))
      [] v = "Tuple" -> (m :> Tuple(<<Var("a", nx), Var("", TInt)>>))
      [] v = "SigParam" -> (m :> Signature(m + 2, NilT, FALSE)) @@
                           ((m + 2) :> Tuple(<<Var("a", nx), Var("", TInt)>>))
      [] v = "SigVar" -> (m :> Signature(m + 2, NilT, TRUE)) @@
                         ((m + 2) :> Tuple(<<Var("a", nx), Var("b", nx)>>))
      [] v = "SigRes1" -> (m :> Signature(NilT, m + 3, FALSE)) @@
                          ((m + 3) :> Tuple(<<Var("", nx)>>))
      [] v = "SigResNamed" -> (m :> Signature(m + 2, m + 3, FALSE)) @@
                              ((m + 2) :> Tuple(<<>>)) @@
                              ((m + 3) :> Tuple(<<Var("r", nx)>>))
      [] v = "SigRes2" -> (m :> Signature(NilT, m + 3, FALSE)) @@
                          ((m + 3) :> Tuple(<<Var("", nx), Var("", TInt)>>))
      [] v = "IfaceMethodParam" -> (m :> Interface(<<Func("m", m + 1)>>, <<>>)) @@
                                   ((m + 1) :> Signature(m + 2, NilT, FALSE)) @@
                                   ((m + 2) :> Tuple(<<Var("", nx)>>))
      [] v = "IfaceMethodRes" -> (m :> Interface(<<Func("m", m + 1)>>, <<>>)) @@
                                 ((m + 1) :> Signature(NilT, m + 3, FALSE)) @@
                                 ((m + 3) :> Tuple(<<Var("", nx)>>))
      [] v = "IfaceBoth" -> (m :> Interface(<<Func("m", m + 1), Func("n", m + 1)>>,
                                            <<nx, TError>>)) @@
                            ((m + 1) :> Signature(NilT, NilT, FALSE))
      [] v = "IfaceEmbed" -> (m :> Interface(<<>>, <<nx>>))
      [] v = "Named" -> (m :> Named("N", "pkgB", nx))

Addr(i) == 10 * i

\* the nodes link i of a chain defines
LinkAt(ls, tm, i) == Link(ls[i], Addr(i), IF i < Len(ls) THEN Addr(i + 1) ELSE tm)

\* the addresses of the graph's nodes
NodesOf(ls) == DOMAIN LeafHeap \cup UNION {DOMAIN LinkAt(ls, NilT, i) : i \in 1..Len(ls)}

\* the node at address t
NodeOf(ls, tm, t) == IF t \in DOMAIN LeafHeap THEN LeafHeap[t] ELSE LinkAt(ls, tm, t \div 10)[t]

ChainNodes(ls) == NodesOf(ls) \ DOMAIN LeafHeap

RECURSIVE SeqsUpTo(_, _)
SeqsUpTo(S, n) ==
    IF n = 0 THEN {<<>>}
    ELSE LET shorter == SeqsUpTo(S, n - 1)
         IN shorter \cup {Append(s, x) : s \in {t \in shorter : Len(t) = n - 1}, x \in S}

\* chains of the variants that carry recursion, and of all variants
Chains(n) == SeqsUpTo(CoreVariants, n) \ {<<>>}
AllChains(n) == SeqsUpTo(Variants, n) \ {<<>>}

\* leaves a chain may end in when rendered from package pkgA
Terminals == {NilT, TInvalid, TString, TInt, TNamedA, TNamedB}
\* leaves that exercise name qualification and the leaf kinds
NameLeaves == {TUnsafe, TNamedA, TNamedB, TNamedA2, TError, TExt}

\* a chain of InitCap + d Pointer nodes closed by a two-field Struct
DeepLinks(d) == [i \in 1..(InitCap + d + 1) |-> IF i <= InitCap + d THEN "Pointer" ELSE "Struct2"]

\* <<chain, end of the chain, viewing package, root>>: what the model starts
\* from.  Chains of the core variants up to MaxChain and chains of all
\* variants up to MaxChain - 1, ending in a leaf or in any of their own nodes;
\* the shorter chains also from every package onto the leaves that have a
\* name; every leaf as the root; the deep chains.
Inputs ==
    UNION {{<<c, t, "pkgA", Addr(1)>> : t \in Terminals \cup ChainNodes(c)} :
             c \in Chains(MaxChain) \cup AllChains(MaxChain - 1)}
    \cup {<<c, t, p, Addr(1)>> :
            c \in AllChains(MaxChain - 1), t \in NameLeaves, p \in Packages \cup {NoPkg}}
    \cup {<<<<>>, NilT, p, r>> : p \in Packages \cup {NoPkg}, r \in DOMAIN LeafHeap}
    \cup {<<DeepLinks(d), t, "pkgA", Addr(1)>> :
            d \in 0..MaxDeep, t \in {TInt, Addr(1), Addr(InitCap)}}

(***************************************************************************)
(* State.                                                                  *)
(*   links, term      the type graph: its chain and where the chain ends   *)
(*   pkg, root        the arguments of typeString                          *)
(*                    (graph and arguments never change)                   *)
(*   stack            the active calls, innermost last                     *)
(*   buf              the bytes.Buffer, one element per write              *)
(*   ret              the error value the last returned call returned      *)
(*   arrays           the backing arrays of the visited slices             *)
(*   status           "running", "done" (typeString returned) or "panic"   *)
(*   panicVal         the value of the panic, "" when there is none        *)
(*   invalidHit       history: writeType has reached a Basic of kind       *)
(*                    Invalid                                              *)
(***************************************************************************)
VARIABLES links, term, pkg, root, stack, buf, ret, arrays, status, panicVal, invalidHit

vars == <<links, term, pkg, root, stack, buf, ret, arrays, status, panicVal, invalidHit>>

NoErr == "nil"
ErrTODO == "TODO"
StringExpected == "internal error: string type expected"
NilDeref == "runtime error: invalid memory address or nil pointer dereference"

\* a slice header: the backing array and the length
SliceOf(a, n) == [arr |-> a, len |-> n]

NewFrame(fn, typ, vis, variadic) ==
    [fn |-> fn, typ |-> typ, pc |-> "entry", i |-> 0, vis |-> vis, variadic |-> variadic]

Top == stack[Len(stack)]
Pop(st) == SubSeq(st, 1, Len(st) - 1)
SetTop(st, f) == [st EXCEPT ![Len(st)] = f]
Running == status = "running" /\ stack # <<>>
CanCall == Len(stack) < MaxStack

\* the elements of a slice, read through its header
Elems(arrs, vis) == SubSeq(arrs[vis.arr], 1, vis.len)


\* mutant: the result of append is lost, visited stays as it was
AppendVisitedLost(arrs, vis, typ) == [arrays |-> arrs, vis |-> vis]

\* append(visited, typ): in place while the capacity lasts, else into a new
\* array of twice the capacity
AppendVisited(arrs, vis, typ) ==
    IF vis.len < Len(arrs[vis.arr])
    THEN [arrays |-> [arrs EXCEPT ![vis.arr][vis.len + 1] = typ],
          vis |-> SliceOf(vis.arr, vis.len + 1)]
    ELSE [arrays |-> Append(arrs, Elems(arrs, vis) \o <<typ>>
                                  \o [j \in 1..(2 * Len(arrs[vis.arr]) - vis.len - 1) |-> NilT]),
          vis |-> SliceOf(Len(arrs) + 1, vis.len + 1)]

\* typeString: var buf bytes.Buffer; writeType(&buf, pkg, typ, make([]types.Type, 0, 8))
Init ==
    /\ \E in \in Inputs : links = in[1] /\ term = in[2] /\ pkg = in[3] /\ root = in[4]
    /\ arrays = << [j \in 1..InitCap |-> NilT] >>
    /\ stack = << NewFrame("writeType", root, SliceOf(1, 0), FALSE) >>
    /\ buf = <<>>
    /\ ret = NoErr
    /\ status = "running"
    /\ panicVal = ""
    /\ invalidHit = FALSE

(***************************************************************************)
(* go/types accessors the code calls.                                      *)
(***************************************************************************)
\* the graph as the code sees it
Node(t) == NodeOf(links, term, t)

Kind(t) == Node(t).kind

\* mutant: two nodes of the same kind are taken for the same node
SameKind(t, typ) == Kind(t) = Kind(typ)

\* t == typ on types.Type interface values holding pointers
SameType(t, typ) == t = typ

\* mutant: only the last element of visited, the caller's node, is compared
InVisitedLast(arrs, vis, typ) == vis.len > 0 /\ SameType(arrs[vis.arr][vis.len], typ)

\* for _, t := range visited { if t == typ {
InVisited(arrs, vis, typ) == \E j \in 1..vis.len : SameType(arrs[vis.arr][j], typ)

\* typ.Underlying(): a Named type's resolved underlying type, any other
\* type itself; a chain of Named types that never resolves is invalid.
\* (The recursive call takes its arguments as bound values, which keeps
\* the evaluation linear in the length of the chain.)
RECURSIVE Resolve(_, _)
Resolve(t, fuel) ==
    IF Kind(t) # "Named" THEN t
    ELSE IF fuel = 0 THEN TInvalid
    ELSE CHOOSE r \in {Resolve(u, n) : u \in {Node(t).underlying}, n \in {fuel - 1}} : TRUE

Underlying(t) == Resolve(t, Len(links) + 1)

\* tup.Len(), also of a nil *types.Tuple
TupleLen(tup) == IF tup = NilT THEN 0 ELSE Len(Node(tup).vars)

\* isImported(pkg, t): whether t's package is another than pkg
isImported(p, t) == Node(t).pkg # p

\* mutant: packages are told apart by their names
NamedStringByName(p, t) ==
    IF Node(t).pkg # NoPkg /\ (p = NoPkg \/ PkgName(Node(t).pkg) # PkgName(p))
    THEN PkgName(Node(t).pkg) \o "." \o Node(t).name
    ELSE Node(t).name

\* case *types.Named: the name, qualified when imported
NamedString(p, t) ==
    IF isImported(p, t) /\ Node(t).pkg # NoPkg
    THEN PkgName(Node(t).pkg) \o "." \o Node(t).name
    ELSE Node(t).name

\* case *types.Basic: the writes of a valid basic type
BasicString(t) ==
    IF Node(t).bkind = "UnsafePointer" THEN <<"unsafe.", Node(t).name>> ELSE <<Node(t).name>>

\* case *types.Chan: the direction prefix
ChanPrefix(t) ==
    CASE Node(t).dir = "SendRecv" -> "chan "
      [] Node(t).dir = "SendOnly" -> "chan<- "
      [] Node(t).dir = "RecvOnly" -> "<-chan "

\* chan (<-chan T) requires parentheses
ChanParens(t) ==
    /\ Node(t).dir = "SendRecv"
    /\ Kind(Node(t).elem) = "Chan"
    /\ Node(Node(t).elem).dir = "RecvOnly"

\* mutant: every element of a variadic tuple is taken for the last
IsVariadicAny(f) == f.variadic

\* the last parameter of a variadic tuple
IsVariadicLast(f) == f.variadic /\ f.i = TupleLen(f.typ) - 1

\* mutant: the type itself is looked at, not its underlying type
IsStringBasic(t) == Kind(t) = "Basic" /\ Node(t).bkind = "String"

\* t, ok := typ.Underlying().(*types.Basic); ok && t.Kind() == types.String
IsStringType(t) ==
    /\ Kind(Underlying(t)) = "Basic"
    /\ Node(Underlying(t)).bkind = "String"

\* mutant: the name of the single result is not looked at
SingleResult(sig) == TupleLen(Node(sig).results) = 1

\* n == 1 && sig.Results().At(0).Name() == ""
SingleUnnamedResult(sig) ==
    /\ TupleLen(Node(sig).results) = 1
    /\ Node(Node(sig).results).vars[1].name = ""

(***************************************************************************)
(* Calls and returns.                                                      *)
(***************************************************************************)
\* the top frame, become f, calls callee
Call(f, callee) ==
    /\ CanCall
    /\ stack' = Append(SetTop(stack, f), callee)
    /\ UNCHANGED <<ret, status, panicVal>>

\* the top frame goes on at pc with index i
Goto(pc, i) ==
    /\ stack' = SetTop(stack, [Top EXCEPT !.pc = pc, !.i = i])
    /\ UNCHANGED <<ret, status, panicVal>>

\* the top frame returns err to its caller
Return(err) ==
    /\ stack' = Pop(stack)
    /\ ret' = err
    /\ UNCHANGED <<status, panicVal>>

\* panic(v): nothing recovers, the program aborts
Panic(v) ==
    /\ status' = "panic"
    /\ panicVal' = v
    /\ UNCHANGED <<stack, ret>>

Write(toks) == buf' = buf \o toks

\* writeType is entered on a node of kind k that is not in visited
Entering(k) ==
    /\ Running
    /\ Top.fn = "writeType" /\ Top.pc = "entry"
    /\ ~InVisited(arrays, Top.vis, Top.typ)
    /\ Kind(Top.typ) = k

\* visited = append(visited, typ)
Pushed == AppendVisited(arrays, Top.vis, Top.typ)

\* mutant: the frame keeps the slice it was called with
EnteredStale(pc) == [Top EXCEPT !.pc = pc]

\* the top frame past line 63, at pc
Entered(pc) == [Top EXCEPT !.pc = pc, !.vis = Pushed.vis]

\* the top frame at pc with index i
At(pc, i) == [Top EXCEPT !.pc = pc, !.i = i]

Frozen == UNCHANGED <<links, term, pkg, root>>

(***************************************************************************)
(* writeType.                                                              *)
(***************************************************************************)
\* the node is in visited: the cycle marker, return nil
CycleHit ==
    /\ Running
    /\ Top.fn = "writeType" /\ Top.pc = "entry"
    /\ InVisited(arrays, Top.vis, Top.typ)
    /\ Write(<<CycleMark(Kind(Top.typ))>>)
    /\ Return(NoErr)
    /\ UNCHANGED <<arrays, invalidHit>> /\ Frozen

WriteNil ==
    /\ Entering("nil")
    /\ arrays' = Pushed.arrays
    /\ Write(<<"nil">>)
    /\ Return(NoErr)
    /\ UNCHANGED invalidHit /\ Frozen

WriteBasic ==
    /\ Entering("Basic")
    /\ arrays' = Pushed.arrays
    /\ IF Node(Top.typ).bkind = "Invalid"
       THEN /\ Return(ErrTODO)
            /\ invalidHit' = TRUE
            /\ UNCHANGED buf
       ELSE /\ Write(BasicString(Top.typ))
            /\ Return(NoErr)
            /\ UNCHANGED invalidHit
    /\ Frozen

\* Array, Slice and Pointer: the prefix, then return writeType(elem)
ElemPrefix(t) ==
    CASE Kind(t) = "Array" -> "[" \o ToString(Node(t).len) \o "]"
      [] Kind(t) = "Slice" -> "[]"
      [] Kind(t) = "Pointer" -> "*"

WriteArray ==
    /\ Entering("Array")
    /\ arrays' = Pushed.arrays
    /\ Write(<<ElemPrefix(Top.typ)>>)
    /\ Call(Entered("tail"), NewFrame("writeType", Node(Top.typ).elem, Pushed.vis, FALSE))
    /\ UNCHANGED invalidHit /\ Frozen

WriteSlice ==
    /\ Entering("Slice")
    /\ arrays' = Pushed.arrays
    /\ Write(<<ElemPrefix(Top.typ)>>)
    /\ Call(Entered("tail"), NewFrame("writeType", Node(Top.typ).elem, Pushed.vis, FALSE))
    /\ UNCHANGED invalidHit /\ Frozen

WritePointer ==
    /\ Entering("Pointer")
    /\ arrays' = Pushed.arrays
    /\ Write(<<ElemPrefix(Top.typ)>>)
    /\ Call(Entered("tail"), NewFrame("writeType", Node(Top.typ).elem, Pushed.vis, FALSE))
    /\ UNCHANGED invalidHit /\ Frozen

\* return f(...): the callee's error is the caller's
TailReturn ==
    /\ Running
    /\ Top.pc = "tail"
    /\ Return(ret)
    /\ UNCHANGED <<buf, arrays, invalidHit>> /\ Frozen

(***************************************************************************)
(* case *types.Struct                                                      *)
(***************************************************************************)
\* the separator and name written before field i's type
FieldHead(t, i) ==
    (IF i > 0 THEN <<"; ">> ELSE <<>>)
    \o (IF Node(t).fields[i + 1].anonymous THEN <<>> ELSE <<Node(t).fields[i + 1].name, " ">>)

\* fmt.Fprintf(buf, " %q", tag)
FieldTag(t, i) ==
    IF Node(t).fields[i + 1].tag # "" THEN <<" \"" \o Node(t).fields[i + 1].tag \o "\"">> ELSE <<>>

WriteStruct ==
    /\ Entering("Struct")
    /\ arrays' = Pushed.arrays
    /\ Write(<<"struct{">>)
    /\ stack' = SetTop(stack, Entered("fields"))
    /\ UNCHANGED <<ret, status, panicVal, invalidHit>> /\ Frozen

\* the loop over the fields: the next field's head and the call for its
\* type, or the closing brace
StructField ==
    /\ Running
    /\ Top.fn = "writeType" /\ Top.pc = "fields"
    /\ IF Top.i < Len(Node(Top.typ).fields)
       THEN /\ Write(FieldHead(Top.typ, Top.i))
            /\ Call(At("fieldret", Top.i),
                    NewFrame("writeType", Node(Top.typ).fields[Top.i + 1].typ, Top.vis, FALSE))
       ELSE /\ Write(<<"}">>)
            /\ Return(NoErr)
    /\ UNCHANGED <<arrays, invalidHit>> /\ Frozen

\* after a field's type: return its error, else its tag and the next field
StructFieldRet ==
    /\ Running
    /\ Top.fn = "writeType" /\ Top.pc = "fieldret"
    /\ IF ret # NoErr
       THEN /\ Return(ret)
            /\ UNCHANGED buf
       ELSE /\ Write(FieldTag(Top.typ, Top.i))
            /\ Goto("fields", Top.i + 1)
    /\ UNCHANGED <<arrays, invalidHit>> /\ Frozen

(***************************************************************************)
(* case *types.Tuple, case *types.Signature                                *)
(***************************************************************************)
WriteTupleType ==
    /\ Entering("Tuple")
    /\ arrays' = Pushed.arrays
    /\ Call(Entered("tail"), NewFrame("writeTuple", Top.typ, Pushed.vis, FALSE))
    /\ UNCHANGED <<buf, invalidHit>> /\ Frozen

WriteSignatureType ==
    /\ Entering("Signature")
    /\ arrays' = Pushed.arrays
    /\ Write(<<"func">>)
    /\ Call(Entered("tail"), NewFrame("writeSignature", Top.typ, Pushed.vis, FALSE))
    /\ UNCHANGED invalidHit /\ Frozen

(***************************************************************************)
(* case *types.Interface                                                   *)
(***************************************************************************)
WriteInterface ==
    /\ Entering("Interface")
    /\ arrays' = Pushed.arrays
    /\ Write(<<"interface{">>)
    /\ stack' = SetTop(stack, Entered(IF Len(Node(Top.typ).methods) > 0
                                      THEN "methods" ELSE "embeds"))
    /\ UNCHANGED <<ret, status, panicVal, invalidHit>> /\ Frozen

\* the loop over the explicit methods: name and writeSignature
InterfaceMethod ==
    /\ Running
    /\ Top.fn = "writeType" /\ Top.pc = "methods"
    /\ Write((IF Top.i > 0 THEN <<"; ">> ELSE <<>>) \o <<Node(Top.typ).methods[Top.i + 1].name>>)
    /\ Call(At("methodret", Top.i),
            NewFrame("writeSignature", Node(Top.typ).methods[Top.i + 1].sig, Top.vis, FALSE))
    /\ UNCHANGED <<arrays, invalidHit>> /\ Frozen

InterfaceMethodRet ==
    /\ Running
    /\ Top.fn = "writeType" /\ Top.pc = "methodret"
    /\ IF ret # NoErr
       THEN Return(ret)
       ELSE IF Top.i + 1 < Len(Node(Top.typ).methods)
            THEN Goto("methods", Top.i + 1)
            ELSE Goto("embeds", 0)
    /\ UNCHANGED <<buf, arrays, invalidHit>> /\ Frozen

\* the loop over the embedded types, or the closing brace
InterfaceEmbedded ==
    /\ Running
    /\ Top.fn = "writeType" /\ Top.pc = "embeds"
    /\ IF Top.i < Len(Node(Top.typ).embeddeds)
       THEN /\ Write(IF Top.i > 0 \/ Len(Node(Top.typ).methods) > 0 THEN <<"; ">> ELSE <<>>)
            /\ Call(At("embedret", Top.i),
                    NewFrame("writeType", Node(Top.typ).embeddeds[Top.i + 1], Top.vis, FALSE))
       ELSE /\ Write(<<"}">>)
            /\ Return(NoErr)
    /\ UNCHANGED <<arrays, invalidHit>> /\ Frozen

InterfaceEmbeddedRet ==
    /\ Running
    /\ Top.fn = "writeType" /\ Top.pc = "embedret"
    /\ IF ret # NoErr THEN Return(ret) ELSE Goto("embeds", Top.i + 1)
    /\ UNCHANGED <<buf, arrays, invalidHit>> /\ Frozen

(***************************************************************************)
(* case *types.Map, case *types.Chan                                       *)
(***************************************************************************)
WriteMap ==
    /\ Entering("Map")
    /\ arrays' = Pushed.arrays
    /\ Write(<<"map[">>)
    /\ Call(Entered("mapkey"), NewFrame("writeType", Node(Top.typ).key, Pushed.vis, FALSE))
    /\ UNCHANGED invalidHit /\ Frozen

\* after the key: return its error, else "]" and return writeType(elem)
MapKeyRet ==
    /\ Running
    /\ Top.fn = "writeType" /\ Top.pc = "mapkey"
    /\ IF ret # NoErr
       THEN /\ Return(ret)
            /\ UNCHANGED buf
       ELSE /\ Write(<<"]">>)
            /\ Call(At("tail", 0), NewFrame("writeType", Node(Top.typ).elem, Top.vis, FALSE))
    /\ UNCHANGED <<arrays, invalidHit>> /\ Frozen

WriteChan ==
    /\ Entering("Chan")
    /\ arrays' = Pushed.arrays
    /\ Write(<<ChanPrefix(Top.typ)>> \o (IF ChanParens(Top.typ) THEN <<"(">> ELSE <<>>))
    /\ Call(Entered("chanelem"), NewFrame("writeType", Node(Top.typ).elem, Pushed.vis, FALSE))
    /\ UNCHANGED invalidHit /\ Frozen

ChanElemRet ==
    /\ Running
    /\ Top.fn = "writeType" /\ Top.pc = "chanelem"
    /\ IF ret # NoErr
       THEN /\ Return(ret)
            /\ UNCHANGED buf
       ELSE /\ Write(IF ChanParens(Top.typ) THEN <<")">> ELSE <<>>)
            /\ Return(NoErr)
    /\ UNCHANGED <<arrays, invalidHit>> /\ Frozen

(***************************************************************************)
(* case *types.Named, default                                              *)
(***************************************************************************)
WriteNamed ==
    /\ Entering("Named")
    /\ arrays' = Pushed.arrays
    /\ Write(<<NamedString(pkg, Top.typ)>>)
    /\ Return(NoErr)
    /\ UNCHANGED invalidHit /\ Frozen

\* externally defined implementations of Type: t.String()
WriteDefault ==
    /\ Entering("Opaque")
    /\ arrays' = Pushed.arrays
    /\ Write(<<Node(Top.typ).str>>)
    /\ Return(NoErr)
    /\ UNCHANGED invalidHit /\ Frozen

(***************************************************************************)
(* writeTuple                                                              *)
(***************************************************************************)
\* the variable the loop is at, and its type
TupleVar(f) == Node(f.typ).vars[f.i + 1]

\* the separator and name written before element i's type
VarHead(f) ==
    (IF f.i > 0 THEN <<", ">> ELSE <<>>)
    \o (IF TupleVar(f).name # "" THEN <<TupleVar(f).name, " ">> ELSE <<>>)

\* the loop of writeTuple is at an element
AtTupleElem ==
    /\ Running
    /\ Top.fn = "writeTuple" /\ Top.pc = "elems"
    /\ Top.typ # NilT
    /\ Top.i < TupleLen(Top.typ)

TupleOpen ==
    /\ Running
    /\ Top.fn = "writeTuple" /\ Top.pc = "entry"
    /\ Write(<<"(">>)
    /\ Goto("elems", 0)
    /\ UNCHANGED <<arrays, invalidHit>> /\ Frozen

\* an element that is not the last of a variadic tuple; the error of
\* writeType is dropped
TupleElem ==
    /\ AtTupleElem
    /\ ~IsVariadicLast(Top)
    /\ Write(VarHead(Top))
    /\ Call(At("elemret", Top.i), NewFrame("writeType", TupleVar(Top).typ, Top.vis, FALSE))
    /\ UNCHANGED <<arrays, invalidHit>> /\ Frozen

\* the last element of a variadic tuple, a Slice: "..." and its element type
TupleVariadicSlice ==
    /\ AtTupleElem
    /\ IsVariadicLast(Top)
    /\ Kind(TupleVar(Top).typ) = "Slice"
    /\ Write(VarHead(Top) \o <<"...">>)
    /\ Call(At("elemret", Top.i),
            NewFrame("writeType", Node(TupleVar(Top).typ).elem, Top.vis, FALSE))
    /\ UNCHANGED <<arrays, invalidHit>> /\ Frozen

\* the last element of a variadic tuple, no Slice but a string: the type,
\* then "..."
TupleVariadicString ==
    /\ AtTupleElem
    /\ IsVariadicLast(Top)
    /\ Kind(TupleVar(Top).typ) \notin {"Slice", "nil"}
    /\ IsStringType(TupleVar(Top).typ)
    /\ Write(VarHead(Top))
    /\ Call(At("varret", Top.i), NewFrame("writeType", TupleVar(Top).typ, Top.vis, FALSE))
    /\ UNCHANGED <<arrays, invalidHit>> /\ Frozen

\* the last element of a variadic tuple, neither a Slice nor a string:
\* panic("internal error: string type expected"); Underlying() of a nil
\* type is a nil dereference
TupleVariadicPanic ==
    /\ AtTupleElem
    /\ IsVariadicLast(Top)
    /\ Kind(TupleVar(Top).typ) # "Slice"
    /\ Kind(TupleVar(Top).typ) = "nil" \/ ~IsStringType(TupleVar(Top).typ)
    /\ Write(VarHead(Top))
    /\ Panic(IF Kind(TupleVar(Top).typ) = "nil" THEN NilDeref ELSE StringExpected)
    /\ UNCHANGED <<arrays, invalidHit>> /\ Frozen

\* after writeType(buf, pkg, typ, visited): its error is not looked at
TupleElemRet ==
    /\ Running
    /\ Top.fn = "writeTuple" /\ Top.pc = "elemret"
    /\ Goto("elems", Top.i + 1)
    /\ UNCHANGED <<buf, arrays, invalidHit>> /\ Frozen

\* after the string special case: "..." and continue
TupleVarRet ==
    /\ Running
    /\ Top.fn = "writeTuple" /\ Top.pc = "varret"
    /\ Write(<<"...">>)
    /\ Goto("elems", Top.i + 1)
    /\ UNCHANGED <<arrays, invalidHit>> /\ Frozen

\* the end of the loop, or a nil tuple: ")" and return nil
TupleClose ==
    /\ Running
    /\ Top.fn = "writeTuple" /\ Top.pc = "elems"
    /\ Top.typ = NilT \/ Top.i >= TupleLen(Top.typ)
    /\ Write(<<")">>)
    /\ Return(NoErr)
    /\ UNCHANGED <<arrays, invalidHit>> /\ Frozen

(***************************************************************************)
(* writeSignature                                                          *)
(***************************************************************************)
SignatureParams ==
    /\ Running
    /\ Top.fn = "writeSignature" /\ Top.pc = "entry"
    /\ Call(At("results", 0),
            NewFrame("writeTuple", Node(Top.typ).params, Top.vis, Node(Top.typ).variadic))
    /\ UNCHANGED <<buf, arrays, invalidHit>> /\ Frozen

\* after the parameters: no result, a single unnamed result, or a result tuple
SignatureResults ==
    /\ Running
    /\ Top.fn = "writeSignature" /\ Top.pc = "results"
    /\ IF TupleLen(Node(Top.typ).results) = 0
       THEN /\ Return(NoErr)
            /\ UNCHANGED buf
       ELSE /\ Write(<<" ">>)
            /\ IF SingleUnnamedResult(Top.typ)
               THEN Call(At("tail", 0),
                         NewFrame("writeType", Node(Node(Top.typ).results).vars[1].typ,
                                  Top.vis, FALSE))
               ELSE Call(At("tail", 0),
                         NewFrame("writeTuple", Node(Top.typ).results, Top.vis, FALSE))
    /\ UNCHANGED <<arrays, invalidHit>> /\ Frozen

(***************************************************************************)
(* typeString returns buf.String(), err                                    *)
(***************************************************************************)
TypeStringReturn ==
    /\ status = "running"
    /\ stack = <<>>
    /\ status' = "done"
    /\ UNCHANGED <<stack, buf, ret, arrays, panicVal, invalidHit>> /\ Frozen

Next ==
    \/ CycleHit
    \/ WriteNil
    \/ WriteBasic
    \/ WriteArray
    \/ WriteSlice
    \/ WriteStruct
    \/ StructField
    \/ StructFieldRet
    \/ WritePointer
    \/ WriteTupleType
    \/ WriteSignatureType
    \/ WriteInterface
    \/ InterfaceMethod
    \/ InterfaceMethodRet
    \/ InterfaceEmbedded
    \/ InterfaceEmbeddedRet
    \/ WriteMap
    \/ MapKeyRet
    \/ WriteChan
    \/ ChanElemRet
    \/ WriteNamed
    \/ WriteDefault
    \/ TailReturn
    \/ TupleOpen
    \/ TupleElem
    \/ TupleVariadicSlice
    \/ TupleVariadicString
    \/ TupleVariadicPanic
    \/ TupleElemRet
    \/ TupleVarRet
    \/ TupleClose
    \/ SignatureParams
    \/ SignatureResults
    \/ TypeStringReturn

Spec == Init /\ [][Next]_vars

\* the calls are synchronous: a step that can be taken is taken
FairSpec == Spec /\ WF_vars(Next)

(***************************************************************************)
(* Vocabulary of the properties.                                           *)
(***************************************************************************)
Range(s) == {s[j] : j \in 1..Len(s)}

Done == status = "done"

\* what the step appends to the buffer
Written == SubSeq(buf', Len(buf) + 1, Len(buf'))

\* writeType is at its first line
AtEntry == Running /\ Top.fn = "writeType" /\ Top.pc = "entry"

\* the nodes of the writeType calls that enclose the innermost call
Ancestors == SelectSeq(Pop(stack), LAMBDA f : f.fn = "writeType")
AncestorNodes == [j \in 1..Len(Ancestors) |-> Ancestors[j].typ]

\* the types a node refers to
Children(t) ==
    LET n == Node(t)
    IN CASE n.kind \in {"Array", "Slice", "Pointer", "Chan"} -> {n.elem}
         [] n.kind = "Map" -> {n.key, n.elem}
         [] n.kind = "Struct" -> {n.fields[j].typ : j \in 1..Len(n.fields)}
         [] n.kind = "Tuple" -> {n.vars[j].typ : j \in 1..Len(n.vars)}
         [] n.kind = "Signature" -> {n.params, n.results} \ {NilT}
         [] n.kind = "Interface" -> {n.methods[j].sig : j \in 1..Len(n.methods)}
                                    \cup Range(n.embeddeds)
         [] n.kind = "Named" -> {n.underlying}
         [] OTHER -> {}

RECURSIVE Reach(_)
Reach(S) ==
    LET more == S \cup UNION {Children(t) : t \in S}
    IN IF more = S THEN S ELSE Reach(more)

\* the nodes of the graph typeString is called on
GraphNodes == Reach({root})

HasMarker == \E j \in 1..Len(buf) : buf[j] \in Markers

(***************************************************************************)
(* C1: if rendering reaches a Basic of kind Invalid at any position,       *)
(* typeString returns a non-nil error.  The code drops the error of        *)
(* writeType inside writeTuple, so this fails for the elements of a Tuple  *)
(* and for the parameters and the tuple results of a Signature.            *)
(***************************************************************************)
C1_InvalidIsReported == (Done /\ invalidHit) => ret # NoErr

(***************************************************************************)
(* C2: on every graph, cyclic ones included, typeString ends: it returns   *)
(* (a string, or an error) or it panics.                                   *)
(***************************************************************************)
C2_Terminates == <>(status \in {"done", "panic"})

\* a cyclic graph of two chain links has been rendered to the end
C2_Witness == Done /\ Len(links) = 2 /\ term = Addr(1) /\ HasMarker

(***************************************************************************)
(* C3 as stated: whenever the graph of the root contains a self-reference  *)
(* (a Named type whose underlying type leads back to it, or an Interface   *)
(* that embeds itself), the returned string contains a cycle marker.       *)
(* A Named type is never followed into its underlying type, so this fails. *)
(***************************************************************************)
SelfReferential ==
    \E t \in GraphNodes :
        \/ Kind(t) = "Named" /\ t \in Reach(Children(t))
        \/ Kind(t) = "Interface" /\ t \in Range(Node(t).embeddeds)

C3_SelfReferenceMarked == (Done /\ ret = NoErr /\ SelfReferential) => HasMarker

\* writeType is entered on an Interface from that Interface's own loop over
\* its embedded types
SelfEmbedMet ==
    /\ AtEntry
    /\ Len(stack) >= 2
    /\ stack[Len(stack) - 1].fn = "writeType"
    /\ stack[Len(stack) - 1].pc = "embedret"
    /\ stack[Len(stack) - 1].typ = Top.typ

(***************************************************************************)
(* C3 as amended: where rendering meets an Interface among its own         *)
(* embedded types it writes the marker of an Interface there and goes no   *)
(* deeper, so a root Interface that embeds itself and renders without      *)
(* error has the marker in its string; a Named type never gets a marker.   *)
(***************************************************************************)
C3_InterfaceSelfEmbedMarked ==
    /\ [][SelfEmbedMet =>
            /\ Written = <<"○*types.Interface">>
            /\ stack' = Pop(stack)
            /\ ret' = NoErr]_vars
    /\ []((Done /\ ret = NoErr /\ Kind(root) = "Interface"
                /\ root \in Range(Node(root).embeddeds))
            => "○*types.Interface" \in Range(buf))
    /\ []("○*types.Named" \notin Range(buf))

\* interface{ T } with T the interface itself, rendered
C3_Witness ==
    /\ Done
    /\ links = <<"IfaceEmbed">> /\ term = Addr(1)
    /\ buf = <<"interface{", "○*types.Interface", "}">>

(***************************************************************************)
(* C4: a Named type is written as <package name>.<type name> exactly when  *)
(* its package is another than the viewing package and is not nil, and as  *)
(* the bare type name otherwise; writeType returns at once, without        *)
(* rendering the underlying type.                                          *)
(***************************************************************************)
QualifiedName(p, t) ==
    IF Node(t).pkg # p /\ Node(t).pkg # NoPkg
    THEN PkgName(Node(t).pkg) \o "." \o Node(t).name
    ELSE Node(t).name

C4_NamedQualification ==
    [][(AtEntry /\ Kind(Top.typ) = "Named") =>
         /\ Written = <<QualifiedName(pkg, Top.typ)>>
         /\ stack' = Pop(stack)
         /\ ret' = NoErr]_vars

\* T of package pkgA seen from pkgA2, another package of the same name
C4_Witness == Done /\ pkg = "pkgA2" /\ root = TNamedA /\ buf = <<"a.T">>

(***************************************************************************)
(* C5 as stated: the last parameter of a variadic Signature, a Slice, is   *)
(* rendered as its element type followed by "...".  The code writes "..."  *)
(* before the element type.                                                *)
(***************************************************************************)
C5_DotsAfterElement ==
    (/\ Running
     /\ Top.fn = "writeTuple" /\ Top.pc = "elems"
     /\ Top.variadic
     /\ Top.typ # NilT
     /\ Top.i = Len(Node(Top.typ).vars)
     /\ Top.i > 0
     /\ Kind(Node(Top.typ).vars[Top.i].typ) = "Slice")
    => buf[Len(buf)] = "..."

\* the loop of writeTuple is at the last parameter of a variadic Signature
AtVariadicLast ==
    /\ Running
    /\ Top.fn = "writeTuple" /\ Top.pc = "elems"
    /\ Top.typ # NilT
    /\ Top.i = Len(Node(Top.typ).vars) - 1
    /\ Len(stack) >= 2
    /\ stack[Len(stack) - 1].fn = "writeSignature"
    /\ stack[Len(stack) - 1].pc = "results"
    /\ Node(stack[Len(stack) - 1].typ).variadic
    /\ Node(stack[Len(stack) - 1].typ).params = Top.typ

\* what the claims expect before an element's type
ElemHead(f) ==
    (IF f.i > 0 THEN <<", ">> ELSE <<>>)
    \o (IF Node(f.typ).vars[f.i + 1].name # ""
        THEN <<Node(f.typ).vars[f.i + 1].name, " ">> ELSE <<>>)

(***************************************************************************)
(* C5 as amended: the last parameter of a variadic Signature, a Slice, is  *)
(* rendered as "..." followed by its element type, without the "[]" of the *)
(* Slice; and "..." is written for no parameter but the last one of a      *)
(* variadic Signature, never for an element of a result tuple or of a      *)
(* Tuple rendered directly.                                                *)
(***************************************************************************)
C5_DotsBeforeElement ==
    [][/\ (AtVariadicLast /\ Kind(Node(Top.typ).vars[Top.i + 1].typ) = "Slice") =>
             /\ Written = ElemHead(Top) \o <<"...">>
             /\ stack'[Len(stack')] =
                    NewFrame("writeType", Node(Node(Top.typ).vars[Top.i + 1].typ).elem,
                             Top.vis, FALSE)
       /\ ("..." \in Range(Written)) => AtVariadicLast \/ (Running /\ Top.pc = "varret")
       /\ (Running /\ Top.pc = "varret") =>
             /\ Top.fn = "writeTuple"
             /\ Top.variadic
             /\ Top.i = Len(Node(Top.typ).vars) - 1]_vars

\* func(a []string, b ...string) rendered
C5_Witness ==
    /\ Done
    /\ links = <<"SigVar", "Slice">> /\ term = TString
    /\ buf = <<"func", "(", "a", " ", "[]", "string", ", ", "b", " ", "...", "string", ")">>

(***************************************************************************)
(* C6: the result part of a Signature is nothing when there is no result,  *)
(* a space and the bare result type when there is one unnamed result, and  *)
(* a space and the parenthesized result tuple in every other case.         *)
(***************************************************************************)
ResultVars(sig) == IF Node(sig).results = NilT THEN <<>> ELSE Node(Node(sig).results).vars

C6_ResultPart ==
    /\ [][/\ (Running /\ Top.fn = "writeSignature" /\ Top.pc = "results") =>
                LET rs == ResultVars(Top.typ)
                IN CASE Len(rs) = 0 ->
                          Written = <<>> /\ stack' = Pop(stack)
                     [] Len(rs) = 1 /\ rs[1].name = "" ->
                          /\ Written = <<" ">>
                          /\ stack'[Len(stack')] = NewFrame("writeType", rs[1].typ, Top.vis, FALSE)
                     [] OTHER ->
                          /\ Written = <<" ">>
                          /\ stack'[Len(stack')] =
                                 NewFrame("writeTuple", Node(Top.typ).results, Top.vis, FALSE)
          /\ (Running /\ Top.fn = "writeTuple" /\ Top.pc = "entry") => Written = <<"(">>]_vars
    /\ []((Done /\ term = TString) =>
            /\ links = <<"SigParam">> => buf = <<"func", "(", "a", " ", "string", ", ", "int", ")">>
            /\ links = <<"SigRes1">> => buf = <<"func", "(", ")", " ", "string">>
            /\ links = <<"SigResNamed">> =>
                   buf = <<"func", "(", ")", " ", "(", "r", " ", "string", ")">>
            /\ links = <<"SigRes2">> =>
                   buf = <<"func", "(", ")", " ", "(", "string", ", ", "int", ")">>)

\* func() (r string) rendered
C6_Witness ==
    /\ Done
    /\ links = <<"SigResNamed">> /\ term = TString
    /\ buf = <<"func", "(", ")", " ", "(", "r", " ", "string", ")">>

\* the types writeType renders below a node (a Named type has none)
RenderChildren(t) == IF Kind(t) = "Named" THEN {} ELSE Children(t)

RECURSIVE RenderReach(_)
RenderReach(S) ==
    LET more == S \cup UNION {RenderChildren(t) : t \in S}
    IN IF more = S THEN S ELSE RenderReach(more)

\* no node is rendered below itself: nodes may be shared, not cyclic
Acyclic == \A t \in RenderReach({root}) : t \notin RenderReach(RenderChildren(t))

(***************************************************************************)
(* C7: the cycle marker is written only for a node that is, by identity,   *)
(* the node of an enclosing writeType call; a node equal in structure to   *)
(* an enclosing one, or shared by sibling positions, is rendered in full   *)
(* with no marker.                                                         *)
(***************************************************************************)
C7_MarkerOnlyForAncestor ==
    /\ [][(\E j \in 1..Len(Written) : Written[j] \in Markers) =>
            /\ AtEntry
            /\ Top.typ \in Range(AncestorNodes)
            /\ Written = <<"○" \o TypeTag(Kind(Top.typ))>>]_vars
    /\ []((Done /\ Acyclic) => ~HasMarker)
    /\ []((Done /\ links = <<"MapBoth", "Slice">> /\ term = TInt)
            => buf = <<"map[", "[]", "int", "]", "[]", "int">>)

\* one Slice node that is both key and element of a Map, rendered
C7_Witness ==
    /\ Done
    /\ links = <<"MapBoth", "Slice">> /\ term = TInt
    /\ buf = <<"map[", "[]", "int", "]", "[]", "int">>

(***************************************************************************)
(* C8 as stated: no node is expanded while an expansion of the same node   *)
(* is in progress on the recursion path, Signatures reached as Interface   *)
(* methods, the Tuples of a Signature and the Slice of a variadic last     *)
(* parameter included.  writeSignature and writeTuple are called on those  *)
(* without the check and without entering them in visited, so this fails.  *)
(***************************************************************************)
\* the nodes frame k has begun to expand on its own account
ExpandedAt(k) ==
    LET f == stack[k]
        up == IF k > 1 THEN stack[k - 1] ELSE f
        continues == k > 1 /\ up.fn = "writeType" /\ up.typ = f.typ
    IN CASE f.fn = "writeType" -> IF f.pc = "entry" THEN {} ELSE {f.typ}
         [] f.fn = "writeSignature" -> IF continues THEN {} ELSE {f.typ}
         [] f.fn = "writeTuple" ->
              (IF continues \/ f.typ = NilT THEN {} ELSE {f.typ})
              \cup (IF /\ f.pc = "elemret"
                       /\ f.variadic
                       /\ f.i = Len(Node(f.typ).vars) - 1
                       /\ Kind(Node(f.typ).vars[f.i + 1].typ) = "Slice"
                    THEN {Node(f.typ).vars[f.i + 1].typ} ELSE {})

C8_NoNestedExpansion ==
    \A j, k \in 1..Len(stack) : j < k => ExpandedAt(j) \cap ExpandedAt(k) = {}

(***************************************************************************)
(* C8 as amended: every node reached through writeType is checked against  *)
(* visited before its kind-specific rendering begins, so no node is        *)
(* expanded by writeType while a writeType expansion of the same node is   *)
(* in progress on the recursion path.  (A Signature reached as an          *)
(* Interface method, the Tuples of a Signature and the Slice of a variadic *)
(* last parameter are rendered unchecked and can be expanded once more.)   *)
(***************************************************************************)
C8_NoNestedWriteTypeExpansion ==
    \A j, k \in 1..Len(stack) :
        (/\ j < k
         /\ stack[j].fn = "writeType"
         /\ stack[k].fn = "writeType"
         /\ stack[k].pc # "entry")
        => stack[j].typ # stack[k].typ

\* a Signature being rendered as an Interface method is expanded again by
\* writeType, which then stops at it
C8_Witness ==
    \E j, k \in 1..Len(stack) :
        /\ 1 < j /\ j < k
        /\ stack[j - 1].pc = "methodret"
        /\ stack[j].fn = "writeSignature"
        /\ stack[k].fn = "writeType" /\ stack[k].pc = "tail"
        /\ stack[k].typ = stack[j].typ
        /\ k < Len(stack)
        /\ "○*types.Signature" \in Range(buf)

(***************************************************************************)
(* C9: writeTuple panics exactly at the last element of a tuple rendered   *)
(* in variadic mode whose type is no Slice and whose underlying type is    *)
(* not the string primitive; when the underlying type is string (directly  *)
(* or through a Named type) the bare type and then "..." are written; a    *)
(* tuple not rendered in variadic mode never panics.                       *)
(***************************************************************************)
StringUnderlying(t) ==
    /\ t # NilT
    /\ Kind(Underlying(t)) = "Basic"
    /\ Node(Underlying(t)).bkind = "String"

\* the loop of writeTuple is at an element, expressed on the frame
AtElement ==
    /\ Running
    /\ Top.fn = "writeTuple" /\ Top.pc = "elems"
    /\ Top.typ # NilT
    /\ Top.i < Len(Node(Top.typ).vars)

C9_VariadicPanic ==
    /\ [][AtElement =>
            LET t == Node(Top.typ).vars[Top.i + 1].typ
                last == Top.variadic /\ Top.i = Len(Node(Top.typ).vars) - 1
            IN /\ (status' = "panic") <=> (last /\ Kind(t) # "Slice" /\ ~StringUnderlying(t))
               /\ (last /\ Kind(t) # "Slice" /\ StringUnderlying(t)) =>
                     /\ Written = ElemHead(Top)
                     /\ stack'[Len(stack')] = NewFrame("writeType", t, Top.vis, FALSE)
                     /\ stack'[Len(stack)].pc = "varret"]_vars
    /\ [][(Running /\ Top.pc = "varret") =>
            /\ Written = <<"...">>
            /\ status' = "running"]_vars
    /\ [][(status' = "panic") => (AtElement /\ Top.variadic)]_vars
    /\ [](\A k \in 1..Len(stack) :
            (stack[k].fn = "writeTuple" /\ stack[k].variadic) =>
                /\ k > 1
                /\ stack[k - 1].fn = "writeSignature"
                /\ stack[k - 1].pc = "results"
                /\ Node(stack[k - 1].typ).variadic)

\* func(a int, b ...int): the panic
C9_Witness ==
    /\ status = "panic"
    /\ panicVal = "internal error: string type expected"
    /\ links = <<"SigVar">> /\ term = TInt

(***************************************************************************)
(* C10: at the entry of every writeType call, visited is the sequence of   *)
(* the nodes of the enclosing writeType calls, outermost first: nothing an *)
(* already returned call appended is in it, no node is in it twice, and it *)
(* is no longer than the graph has nodes.                                  *)
(***************************************************************************)
C10_VisitedIsPath ==
    AtEntry =>
        /\ Elems(arrays, Top.vis) = AncestorNodes
        /\ Cardinality(Range(AncestorNodes)) = Len(AncestorNodes)
        /\ Top.vis.len <= Cardinality(GraphNodes)

\* the second field of a Struct is entered below more than InitCap calls,
\* after the first field's call has appended and returned
C10_Witness ==
    /\ AtEntry
    /\ Len(stack) >= 2
    /\ stack[Len(stack) - 1].pc = "fieldret"
    /\ stack[Len(stack) - 1].i = 1
    /\ Top.vis.len > InitCap
    /\ Len(arrays) > 1

=============================================================================
